---- MODULE Spec2Model ----
(***************************************************************************)
(* Model of rcode (src/rcode/rcode.py): the remote-side IPC socket         *)
(* selection and the local-side session log (~/.rcode).                    *)
(*                                                                         *)
(* Strings are sequences of atoms.  The atoms ",", " ", "\n" and NUL are   *)
(* the characters the code treats specially (split, strip, splitlines,     *)
(* replace); every other atom is an opaque run of ordinary characters.     *)
(* Python's None is the one-atom sequence None.                            *)
(*                                                                         *)
(* A behaviour is a sequence of processes on one machine.  A process is    *)
(* either the command line tool (Import, Main, ...) or, from the initial   *)
(* state, a direct call of get_ipc_socket, get_code_binary or              *)
(* get_cursor_binary.                                                      *)
(***************************************************************************)
EXTENDS Integers, Sequences, FiniteSets, TLC

(***************************************************************************)
(* Bounds of the model                                                     *)
(***************************************************************************)
MaxLog == 4        \* no invocation starts once the log holds this many records
MaxSocks == 3      \* socket files matching vscode-ipc-*.sock
MaxTime == 2       \* last-access timestamps range over 0..MaxTime
MaxRepos == 2      \* installed server versions

(***************************************************************************)
(* Program constants                                                       *)
(***************************************************************************)
DEFAULT_MAX_IDLE_TIME == 4 * 60 * 60

NoneAtom == "<None>"
None == <<NoneAtom>>
linesep == <<"\n">>
Latest == <<"latest">>
VscodeMarker == <<"vscode-server">>
CursorMarker == <<"cursor-server">>
UriPrefix == <<"vscode-remote://ssh-remote+">>
Whitespace == {" ", "\n"}
NUL == "<NUL>"     \* the byte \x00 that separates the arguments in /proc/<pid>/cmdline

(***************************************************************************)
(* Python string operations                                                *)
(***************************************************************************)
Truthy(x) == x # None /\ x # <<>>

RECURSIVE LStrip(_)
LStrip(s) ==
  IF s # <<>> /\ Head(s) \in Whitespace THEN LStrip(Tail(s)) ELSE s

RECURSIVE RStrip(_)
RStrip(s) ==
  IF s # <<>> /\ s[Len(s)] \in Whitespace
    THEN RStrip(SubSeq(s, 1, Len(s) - 1))
    ELSE s

\* str.strip()
Strip(s) == RStrip(LStrip(s))

\* index of the first occurrence of atom c in s, 0 when there is none
IndexOf(s, c) ==
  IF \E i \in 1..Len(s) : s[i] = c
    THEN CHOOSE i \in 1..Len(s) : s[i] = c /\ \A j \in 1..(i - 1) : s[j] # c
    ELSE 0

\* str.split(sep) for a one-character separator
RECURSIVE Split(_, _)
Split(s, sep) ==
  LET i == IndexOf(s, sep) IN
  IF i = 0 THEN <<s>>
  ELSE <<SubSeq(s, 1, i - 1)>> \o Split(SubSeq(s, i + 1, Len(s)), sep)

\* str.splitlines()
RECURSIVE SplitLines(_)
SplitLines(s) ==
  LET i == IndexOf(s, "\n") IN
  IF s = <<>> THEN <<>>
  ELSE IF i = 0 THEN <<s>>
  ELSE <<SubSeq(s, 1, i - 1)>> \o SplitLines(SubSeq(s, i + 1, Len(s)))

\* list(filter(len, lines))
RECURSIVE FilterLen(_)
FilterLen(lines) ==
  IF lines = <<>> THEN <<>>
  ELSE IF Len(Head(lines)) > 0 THEN <<Head(lines)>> \o FilterLen(Tail(lines))
  ELSE FilterLen(Tail(lines))

\* str.find(sub): 0-based index of the first occurrence, -1 when absent
Find(s, sub) ==
  LET hits == {i \in 1..(Len(s) - Len(sub) + 1) : SubSeq(s, i, i + Len(sub) - 1) = sub} IN
  IF hits = {} THEN -1
  ELSE (CHOOSE i \in hits : \A j \in hits : i <= j) - 1

\* str.replace(old, new) for a one-atom old: every occurrence is replaced
RECURSIVE Replace(_, _, _)
Replace(s, old, new) ==
  IF s = <<>> THEN <<>>
  ELSE (IF Head(s) = old THEN new ELSE <<Head(s)>>) \o Replace(Tail(s), old, new)

(***************************************************************************)
(* Inputs: command lines, the ssh client configuration, the child's exit   *)
(***************************************************************************)
LocalHome == <<"/home/me">>                 \* expanduser("~")
SshConfig ==
  [h \in {<<"devbox">>, <<"bare">>} |->
     IF h = <<"devbox">> THEN [user |-> <<"alice">>]
     ELSE [hostname |-> <<"10.0.0.9">>]]
hosts == DOMAIN SshConfig                   \* sshs.hosts()

Dirs == { <<"/srv/a">>, <<"~", "/b">>, <<"/srv/a", ",", "b">> }

\* the two positionals as argparse binds them: the first one to options.dir,
\* the second one to options.host (nargs="?": no second without a first)
Positionals ==
  { <<None, None>>, <<(<<"devbox">>), None>>, <<(<<"ghost">>), (<<"/srv/a">>)>> }
  \cup { <<(<<"devbox">>), d>> : d \in Dirs }

ShortcutNames == { None, <<"work">> }               \* -sn
OpenNames == { None, <<"work", " ">>, <<"nope">> }  \* -os
RetCodes == { 0, 2, -9 }                            \* proc.returncode

Opt(p, l, sn, os) ==
  [dir |-> p[1], host |-> p[2], is_latest |-> l, shortcut_name |-> sn,
   open_shortcut |-> os]

\* the command lines tried: plain and -sn with every positional pair, -os and
\* -l with and without positionals and with each other
Options ==
  { Opt(p, FALSE, sn, None) : p \in Positionals, sn \in ShortcutNames }
  \cup { Opt(p, FALSE, sn, os) :
           p \in { <<None, None>>, <<(<<"devbox">>), (<<"/srv/a">>)>> },
           sn \in ShortcutNames, os \in OpenNames \ {None} }
  \cup { Opt(p, TRUE, None, os) :
           p \in { <<None, None>>, <<(<<"devbox">>), (<<"/srv/a">>)>> },
           os \in OpenNames }

NoOptions ==
  [dir |-> None, host |-> None, is_latest |-> FALSE, shortcut_name |-> None,
   open_shortcut |-> None]

(***************************************************************************)
(* State                                                                   *)
(***************************************************************************)
VARIABLES
  pc,                \* position of the running invocation
  IS_REMOTE_VSCODE,  \* module-level flag computed at import
  import_env,        \* what lines 66-76 saw: the globs' sizes and SSH_CLIENT
  is_cursor,         \* entry point: rcode (FALSE) or rcursor (TRUE)
  options,           \* parser.parse_args()
  rcode_home,        \* content of ~/.rcode, None while the file is absent
  rcode_used_list,   \* run_loacl: the non-empty lines read at start
  server,            \* run_loacl: URI field of the matched shortcut line
  ssh_remote,        \* run_loacl: the URI built by the default branch
  returncode,        \* proc.returncode of the editor
  branch,            \* which branch of run_loacl the invocation entered
  ran,               \* editor runs of this invocation, in order
  written,           \* strings this invocation appended to ~/.rcode
  last_uri,          \* URI given to the latest append of any invocation
  all_written,       \* every string any invocation wrote to ~/.rcode, in order
  message,           \* what the invocation printed
  error,             \* exception that ended the invocation, "none" if none
  exit_code,         \* exit status, NoExit while running
  st_atime,          \* get_ipc_socket: last-access time of each globbed socket
  now,               \* get_ipc_socket: time.time()
  max_idle_time,     \* get_ipc_socket: the idle threshold
  sock_list,         \* get_ipc_socket: the candidates handed to next_open_socket
  idx,               \* next_open_socket: position of the for loop
  probes,            \* probes made so far: socket, liveness, ownership result
  lsof,              \* result of the last lsof run
  proc_read,         \* result of the last read of /proc/<pid>/cmdline
  sock_result,       \* the socket get_ipc_socket returned, NoSock if none
  code_binary,       \* the path get_code_binary / get_cursor_binary returned
  path_exists        \* whether the executable expected in the chosen directory exists

NoExit == 0 - 1
NoBranch == "none"
NoSock == 0
NoLsof == [status |-> "not run", output |-> <<>>]
NoRead == [status |-> "not run", data |-> <<>>]
NoEnv == [n_vscode_repos |-> 0, n_cursor_repos |-> 0, SSH_CLIENT |-> None]

proc_vars == <<IS_REMOTE_VSCODE, import_env, is_cursor, options>>
local_vars == <<rcode_used_list, server, ssh_remote, returncode, branch>>
out_vars == <<ran, written, message, error, exit_code>>
log_vars == <<rcode_home, last_uri, all_written>>
sel_vars == <<st_atime, now, max_idle_time, sock_list, idx, probes, lsof, proc_read, sock_result, code_binary, path_exists>>
vars == <<pc, proc_vars, local_vars, out_vars, log_vars, sel_vars>>

\* exit(retcode): the status the parent sees is the low byte
ExitStatus(retcode) == retcode % 256

\* os.path.exists + read().splitlines() + filter(len), lines 209-211
ReadLog(f) == IF f = None THEN <<>> ELSE FilterLen(SplitLines(f))

\* open(rcode_home, "a").write(text): creates the file when absent
AppendToMutantTruncate(f, text) == text
AppendTo(f, text) == IF f = None THEN text ELSE f \o text

NumRecords(f) == Len(ReadLog(f))

Init ==
  /\ pc = "idle"
  /\ IS_REMOTE_VSCODE = FALSE
  /\ import_env = NoEnv
  /\ is_cursor = FALSE
  /\ options = NoOptions
  /\ rcode_home = None
  /\ rcode_used_list = <<>>
  /\ server = None
  /\ ssh_remote = None
  /\ returncode = NoExit
  /\ branch = NoBranch
  /\ ran = <<>>
  /\ written = <<>>
  /\ last_uri = None
  /\ all_written = <<>>
  /\ message = ""
  /\ error = "none"
  /\ exit_code = NoExit
  /\ st_atime = <<>>
  /\ now = 0
  /\ max_idle_time = 0
  /\ sock_list = <<>>
  /\ idx = 0
  /\ probes = <<>>
  /\ lsof = NoLsof
  /\ proc_read = NoRead
  /\ sock_result = NoSock
  /\ code_binary = <<>>
  /\ path_exists = FALSE

(***************************************************************************)
(* Module import and main                                                  *)
(***************************************************************************)
\* len(list(glob)) > 0 and os.getenv("SSH_CLIENT"), as a truth value
is_remote_vscodeMutantNoEnv(n_vscode_repos, SSH_CLIENT) == n_vscode_repos > 0

is_remote_vscode(n_vscode_repos, SSH_CLIENT) ==
  n_vscode_repos > 0 /\ Truthy(SSH_CLIENT)

is_remote_cursor(n_cursor_repos, SSH_CLIENT) ==
  n_cursor_repos > 0 /\ Truthy(SSH_CLIENT)

SshClientValues == { None, <<>>, <<"10.0.0.5 50000 22">> }

\* a new process starts: the module is imported, line 76
Import(n_vscode_repos, n_cursor_repos, SSH_CLIENT) ==
  /\ pc \in {"idle", "done"}
  /\ NumRecords(rcode_home) < MaxLog
  /\ pc' = "main"
  /\ IS_REMOTE_VSCODE' =
       (is_remote_vscode(n_vscode_repos, SSH_CLIENT)
          \/ is_remote_cursor(n_cursor_repos, SSH_CLIENT))
  /\ import_env' = [n_vscode_repos |-> n_vscode_repos,
                    n_cursor_repos |-> n_cursor_repos,
                    SSH_CLIENT |-> SSH_CLIENT]
  /\ is_cursor' = FALSE
  /\ options' = NoOptions
  /\ rcode_used_list' = <<>>
  /\ server' = None
  /\ ssh_remote' = None
  /\ returncode' = NoExit
  /\ branch' = NoBranch
  /\ ran' = <<>>
  /\ written' = <<>>
  /\ message' = ""
  /\ error' = "none"
  /\ exit_code' = NoExit
  /\ st_atime' = <<>>
  /\ now' = 0
  /\ max_idle_time' = 0
  /\ sock_list' = <<>>
  /\ idx' = 0
  /\ probes' = <<>>
  /\ lsof' = NoLsof
  /\ proc_read' = NoRead
  /\ sock_result' = NoSock
  /\ code_binary' = <<>>
  /\ path_exists' = FALSE
  /\ UNCHANGED log_vars

\* main / cmain, lines 254-304: parse the arguments and dispatch; nothing
\* after line 76 reads what the import saw, only IS_REMOTE_VSCODE is kept
Main(opts, cursor) ==
  /\ pc = "main"
  /\ options' = opts
  /\ is_cursor' = cursor
  /\ pc' = IF IS_REMOTE_VSCODE THEN "run_remote" ELSE "run_loacl"
  /\ import_env' = NoEnv
  /\ UNCHANGED <<IS_REMOTE_VSCODE, local_vars, out_vars, log_vars, sel_vars>>

\* an uncaught exception: traceback, exit status 1
Raise(exc) ==
  /\ pc' = "done"
  /\ error' = exc
  /\ exit_code' = 1

\* exit(proc.returncode)
ExitMutantZero(rc) ==
  /\ pc' = "done"
  /\ exit_code' = 0

Exit(rc) ==
  /\ pc' = "done"
  /\ exit_code' = ExitStatus(rc)

(***************************************************************************)
(* run_remote, lines 172-192                                               *)
(***************************************************************************)
\* lines 175-179
RunRemote ==
  /\ pc = "run_remote"
  /\ IF ~Truthy(options.dir)
       THEN /\ Raise("Exception: need dir name here")
       ELSE /\ pc' = "check_for_binaries"
            /\ UNCHANGED <<error, exit_code>>
  /\ UNCHANGED <<proc_vars, local_vars, ran, written, message, log_vars, sel_vars>>

\* lines 166-169 called from line 180: find_executable is not imported
\* (line 11 is commented out), so the call raises NameError
CheckForBinaries ==
  /\ pc = "check_for_binaries"
  /\ Raise("NameError")
  /\ UNCHANGED <<proc_vars, local_vars, ran, written, message, log_vars, sel_vars>>

(***************************************************************************)
(* run_loacl, lines 195-251                                                *)
(***************************************************************************)
bin_name == IF is_cursor THEN "cursor" ELSE "code"

\* main passes options.host as dir_name and options.dir as remote_name
dir_name == options.host
remote_name == options.dir

Last(s) == s[Len(s)]

\* line 214: rcode_used_list[-1].split(",")[-1].strip()
MostRecent(lines) == Strip(Last(Split(Last(lines), ",")))

\* lines 221-230: the for loop over the lines.  The result is the first
\* matching line's URI field, a ValueError when a line before any match does
\* not split into exactly two fields, or no match.
RECURSIVE FindByName(_, _)
FindByName(lines, name) ==
  IF lines = <<>> THEN [kind |-> "nomatch", server |-> None]
  ELSE LET f == Split(Head(lines), ",") IN
       IF Len(f) # 2 THEN [kind |-> "ValueError", server |-> None]
       ELSE IF Strip(name) = Strip(f[1]) THEN [kind |-> "match", server |-> f[2]]
       ELSE FindByName(Tail(lines), name)

\* sp.run([bin_name, "--folder-uri", uri])
Run(uri) == [bin |-> bin_name, flag |-> "--folder-uri", arg |-> uri]

\* lines 212-216: open the most recent session
OpenLatest ==
  /\ pc = "run_loacl"
  /\ options.is_latest
  /\ ReadLog(rcode_home) # <<>>
  /\ rcode_used_list' = ReadLog(rcode_home)
  /\ branch' = "latest"
  /\ ran' = Append(ran, Run(MostRecent(rcode_used_list')))
  /\ \E rc \in RetCodes : returncode' = rc /\ Exit(rc)
  /\ UNCHANGED <<proc_vars, server, ssh_remote, written, message, error, log_vars, sel_vars>>

\* lines 217-219: nothing was opened before
NoPriorSessionMutantFail ==
  /\ pc = "run_loacl"
  /\ options.is_latest
  /\ ReadLog(rcode_home) = <<>>
  /\ rcode_used_list' = <<>>
  /\ branch' = "latest"
  /\ message' = "Not use rcode before, just use it once"
  /\ pc' = "done"
  /\ exit_code' = 1
  /\ UNCHANGED <<proc_vars, server, ssh_remote, returncode, ran, written, error, log_vars, sel_vars>>

NoPriorSession ==
  /\ pc = "run_loacl"
  /\ options.is_latest
  /\ ReadLog(rcode_home) = <<>>
  /\ rcode_used_list' = <<>>
  /\ branch' = "latest"
  /\ message' = "Not use rcode before, just use it once"
  /\ pc' = "done"
  /\ exit_code' = 0
  /\ UNCHANGED <<proc_vars, server, ssh_remote, returncode, ran, written, error, log_vars, sel_vars>>

EntersShortcut ==
  /\ ~options.is_latest
  /\ Truthy(options.open_shortcut)
  /\ ReadLog(rcode_home) # <<>>

\* lines 220-224: a line matches, the editor is run with its URI
OpenShortcut ==
  /\ pc = "run_loacl"
  /\ EntersShortcut
  /\ rcode_used_list' = ReadLog(rcode_home)
  /\ LET r == FindByName(rcode_used_list', options.open_shortcut) IN
       /\ r.kind = "match"
       /\ server' = r.server
       /\ ran' = Append(ran, Run(Strip(r.server)))
  /\ branch' = "shortcut"
  /\ \E rc \in RetCodes : returncode' = rc
  /\ pc' = "refresh_latest"
  /\ UNCHANGED <<proc_vars, ssh_remote, written, message, error, exit_code, log_vars, sel_vars>>

\* lines 225-228: then add it to the latest
RefreshLatestMutantNoAppend ==
  /\ pc = "refresh_latest"
  /\ Exit(returncode)
  /\ UNCHANGED <<proc_vars, local_vars, ran, written, message, error, log_vars, sel_vars>>

RefreshLatest ==
  /\ pc = "refresh_latest"
  /\ LET line == Latest \o <<",">> \o server \o linesep IN
       /\ rcode_home' = AppendTo(rcode_home, line)
       /\ written' = Append(written, line)
  /\ last_uri' = server
  /\ all_written' = Append(all_written, Latest \o <<",">> \o server \o linesep)
  /\ Exit(returncode)
  /\ UNCHANGED <<proc_vars, local_vars, ran, message, error, sel_vars>>

\* lines 222 and 229-230: a malformed line, or no line matches
ShortcutFails ==
  /\ pc = "run_loacl"
  /\ EntersShortcut
  /\ rcode_used_list' = ReadLog(rcode_home)
  /\ LET r == FindByName(rcode_used_list', options.open_shortcut) IN
       /\ r.kind # "match"
       /\ Raise(IF r.kind = "ValueError" THEN "ValueError"
                ELSE "Exception: no short_cut name in your added")
  /\ branch' = "shortcut"
  /\ UNCHANGED <<proc_vars, server, ssh_remote, returncode, ran, written, message, log_vars, sel_vars>>

EntersDefault == ~options.is_latest /\ ~EntersShortcut

\* os.path.expanduser
expanduser(path) ==
  IF path # <<>> /\ Head(path) = "~" THEN LocalHome \o Tail(path) ELSE path

\* str.startswith for a one-atom prefix
startswith(s, prefix) == s # <<>> /\ <<Head(s)>> = prefix

\* sshs.host(remote_name).get("user", "root"), line 240
HostUser(h) ==
  IF "user" \in DOMAIN SshConfig[h] THEN SshConfig[h].user ELSE <<"root">>

\* lines 237-243
BuildUri(rn, dn) ==
  LET d == expanduser(dn)
      d2 == IF startswith(d, LocalHome)
              THEN Replace(d, LocalHome[1], <<"/home/">> \o HostUser(rn))
              ELSE d
  IN UriPrefix \o rn \o d2

\* lines 232-236: the host is not in the ssh configuration
\* line 237: expanduser(None) raises TypeError
DefaultFailsMutantAppendsFirst ==
  /\ pc = "run_loacl"
  /\ EntersDefault
  /\ remote_name \notin hosts \/ dir_name = None
  /\ rcode_used_list' = ReadLog(rcode_home)
  /\ branch' = "default"
  /\ LET line == Latest \o <<",">> \o UriPrefix \o remote_name \o linesep IN
       /\ rcode_home' = AppendTo(rcode_home, line)
       /\ written' = Append(written, line)
  /\ last_uri' = UriPrefix \o remote_name
  /\ all_written' =
       Append(all_written, Latest \o <<",">> \o UriPrefix \o remote_name \o linesep)
  /\ Raise(IF remote_name \notin hosts
             THEN "Exception: Please config your .ssh config to use this"
             ELSE "TypeError")
  /\ UNCHANGED <<proc_vars, server, ssh_remote, returncode, ran, message, sel_vars>>

DefaultFails ==
  /\ pc = "run_loacl"
  /\ EntersDefault
  /\ remote_name \notin hosts \/ dir_name = None
  /\ rcode_used_list' = ReadLog(rcode_home)
  /\ branch' = "default"
  /\ Raise(IF remote_name \notin hosts
             THEN "Exception: Please config your .ssh config to use this"
             ELSE "TypeError")
  /\ UNCHANGED <<proc_vars, server, ssh_remote, returncode, ran, written, message, log_vars, sel_vars>>

\* lines 232-243: the host is known, the URI is built
DefaultResolve ==
  /\ pc = "run_loacl"
  /\ EntersDefault
  /\ remote_name \in hosts
  /\ dir_name # None
  /\ rcode_used_list' = ReadLog(rcode_home)
  /\ branch' = "default"
  /\ ssh_remote' = BuildUri(remote_name, dir_name)
  /\ pc' = "append"
  /\ UNCHANGED <<proc_vars, server, returncode, out_vars, log_vars, sel_vars>>

\* the content of a file made by writes, one after the other
RECURSIVE Concat(_)
Concat(writes) ==
  IF writes = <<>> THEN <<>> ELSE Head(writes) \o Concat(Tail(writes))

\* lines 244-248: append the record
DefaultAppendMutantRewrite ==
  /\ pc = "append"
  /\ LET name == IF Truthy(options.shortcut_name) THEN options.shortcut_name ELSE Latest
         line == name \o <<",">> \o ssh_remote \o linesep
     IN /\ rcode_home' =
             Concat(SubSeq(all_written, 1, Len(rcode_used_list))) \o line
        /\ written' = Append(written, line)
        /\ all_written' = Append(all_written, line)
  /\ last_uri' = ssh_remote
  /\ pc' = "exec"
  /\ UNCHANGED <<proc_vars, local_vars, ran, message, error, exit_code, sel_vars>>

DefaultAppend ==
  /\ pc = "append"
  /\ LET name == IF Truthy(options.shortcut_name) THEN options.shortcut_name ELSE Latest
         line == name \o <<",">> \o ssh_remote \o linesep
     IN /\ rcode_home' = AppendTo(rcode_home, line)
        /\ written' = Append(written, line)
        /\ all_written' = Append(all_written, line)
  /\ last_uri' = ssh_remote
  /\ pc' = "exec"
  /\ UNCHANGED <<proc_vars, local_vars, ran, message, error, exit_code, sel_vars>>

\* lines 250-251: run the editor, exit with its code
DefaultExec ==
  /\ pc = "exec"
  /\ ran' = Append(ran, Run(ssh_remote))
  /\ \E rc \in RetCodes : returncode' = rc /\ Exit(rc)
  /\ UNCHANGED <<proc_vars, rcode_used_list, server, ssh_remote, branch, written, message, error, log_vars, sel_vars>>

(***************************************************************************)
(* Socket selection, lines 32-56 and 119-163                               *)
(***************************************************************************)
SockPaths == 1..MaxSocks     \* vscode-ipc-<i>.sock, ordered as the paths are
Times == 0..MaxTime
Nows == { DEFAULT_MAX_IDLE_TIME, DEFAULT_MAX_IDLE_TIME + 1 }
MaxIdleTimes == { DEFAULT_MAX_IDLE_TIME, DEFAULT_MAX_IDLE_TIME - 1 }

\* (ts, path) tuples compare lexicographically
TupleLess(a, b) == a[1] < b[1] \/ (a[1] = b[1] /\ a[2] < b[2])

\* sorted(paths_list, reverse=True), line 48
RECURSIVE SortedReverseMutantAscending(_)
SortedReverseMutantAscending(S) ==
  IF S = {} THEN <<>>
  ELSE LET m == CHOOSE x \in S : \A y \in S \ {x} : TupleLess(x, y)
       IN <<m>> \o SortedReverseMutantAscending(S \ {m})

RECURSIVE SortedReverse(_)
SortedReverse(S) ==
  IF S = {} THEN <<>>
  ELSE LET m == CHOOSE x \in S : \A y \in S \ {x} : TupleLess(y, x)
       IN <<m>> \o SortedReverse(S \ {m})

\* lines 45-49: atime is the stat of every globbed path
sort_by_access_timestamp(atime) ==
  SortedReverse({ <<atime[p], p>> : p \in DOMAIN atime })

\* line 160: [sock for ts, sock in socks if now - ts <= max_idle_time]
RECURSIVE IdleFilterMutantNone(_, _, _)
IdleFilterMutantNone(socks, t, mit) ==
  IF socks = <<>> THEN <<>>
  ELSE <<Head(socks)[2]>> \o IdleFilterMutantNone(Tail(socks), t, mit)

RECURSIVE IdleFilter(_, _, _)
IdleFilter(socks, t, mit) ==
  IF socks = <<>> THEN <<>>
  ELSE (IF t - Head(socks)[1] <= mit THEN <<Head(socks)[2]>> ELSE <<>>)
         \o IdleFilter(Tail(socks), t, mit)

\* what socat, lsof and the read of /proc/<pid>/cmdline can come back with
SocatResults ==
  { [status |-> "ok", returncode |-> 0], [status |-> "ok", returncode |-> 1],
    [status |-> "OSError", returncode |-> 0] }

LsofResults ==
  { [status |-> "CalledProcessError", output |-> <<>>],
    [status |-> "FileNotFoundError", output |-> <<>>],
    [status |-> "ok", output |-> <<"\n">>],
    [status |-> "ok", output |-> <<"4242", "\n">>],
    [status |-> "ok", output |-> <<"4242", "\n", "4311", "\n">>] }

VscodeCmdline ==
  <<"/home/me/.", "vscode-server", "/bin/f1e1/node", NUL, "out/server-main.js", NUL>>
CursorCmdline ==
  <<"/home/me/.", "cursor-server", "/bin/a0b0/node", NUL, "out/server-main.js", NUL>>
OtherCmdline == <<"/usr/bin/dockerd", NUL>>

ProcReads ==
  { [status |-> "FileNotFoundError", data |-> <<>>],
    [status |-> "PermissionError", data |-> <<>>],
    [status |-> "ok", data |-> VscodeCmdline],
    [status |-> "ok", data |-> CursorCmdline],
    [status |-> "ok", data |-> OtherCmdline] }

\* lines 32-42
is_socket_open(socat) == socat.status = "ok" /\ socat.returncode = 0

\* int(output): one run of digits; the atoms with digits only are the PIDs
IsInt(s) == Len(s) = 1 /\ s[1] \in {"4242", "4311"}

Marker(cursor) == IF cursor THEN CursorMarker ELSE VscodeMarker

\* True when lsof gave something int() accepts, so that line 134 is reached
ReachesRead(l) ==
  l.status = "ok" /\ Strip(l.output) # <<>> /\ IsInt(Strip(l.output))

\* lines 119-146: "True", "False", or the name of the exception that escapes
GetProcessMutantAny(l, r, cursor) ==
  IF l.status # "ok" THEN "False"
  ELSE IF Strip(l.output) = <<>> THEN "False"
  ELSE IF ~IsInt(Strip(l.output)) THEN "ValueError"
  ELSE IF r.status = "FileNotFoundError" THEN "False"
  ELSE IF r.status # "ok" THEN r.status
  ELSE "True"

get_process_using_socket(l, r, cursor) ==
  IF l.status # "ok" THEN "False"
  ELSE IF Strip(l.output) = <<>> THEN "False"
  ELSE IF ~IsInt(Strip(l.output)) THEN "ValueError"
  ELSE IF r.status = "FileNotFoundError" THEN "False"
  ELSE IF r.status # "ok" THEN r.status
  ELSE LET cmdline == Strip(Replace(r.data, NUL, <<" ">>)) IN
       IF Find(cmdline, Marker(cursor)) # -1 THEN "True" ELSE "False"

ProbeInputs ==
  { <<s, NoLsof, NoRead>> : s \in { x \in SocatResults : ~is_socket_open(x) } }
  \cup { <<s, l, NoRead>> :
           s \in { x \in SocatResults : is_socket_open(x) },
           l \in { x \in LsofResults : ~ReachesRead(x) } }
  \cup { <<s, l, r>> :
           s \in { x \in SocatResults : is_socket_open(x) },
           l \in { x \in LsofResults : ReachesRead(x) },
           r \in ProcReads }

\* get_ipc_socket called in a fresh process, lines 149-163 up to the call of
\* next_open_socket
GetIpcSocket(atime, t, mit, cursor) ==
  /\ pc = "idle"
  /\ st_atime' = atime
  /\ now' = t
  /\ max_idle_time' = mit
  /\ is_cursor' = cursor
  /\ sock_list' = IdleFilter(sort_by_access_timestamp(atime), t, mit)
  /\ idx' = 1
  /\ pc' = "next_open_socket"
  /\ UNCHANGED <<IS_REMOTE_VSCODE, import_env, options, local_vars, out_vars,
                 log_vars, probes, lsof, proc_read, sock_result, code_binary, path_exists>>

\* lines 54-56: one iteration of the for loop
ProbeSocketMutantRetry(socat, l, r) ==
  /\ pc = "next_open_socket"
  /\ idx <= Len(sock_list)
  /\ lsof' = l
  /\ proc_read' = r
  /\ LET sock == sock_list[idx]
         open == is_socket_open(socat)
         owner == IF open THEN get_process_using_socket(l, r, is_cursor)
                  ELSE "unchecked"
     IN /\ probes' = Append(probes, [sock |-> sock, open |-> open, owner |-> owner])
        /\ IF owner = "True"
             THEN /\ sock_result' = sock
                  /\ pc' = "done"
                  /\ UNCHANGED <<idx, error, exit_code>>
           ELSE IF owner \in {"False", "unchecked"}
             THEN /\ idx' = IF open THEN idx + 1 ELSE idx
                  /\ UNCHANGED <<pc, sock_result, error, exit_code>>
           ELSE /\ Raise(owner)
                /\ UNCHANGED <<idx, sock_result>>
  /\ Len(probes) < Len(sock_list) + 1
  /\ UNCHANGED <<proc_vars, local_vars, ran, written, message, log_vars,
                 st_atime, now, max_idle_time, sock_list, code_binary, path_exists>>

ProbeSocket(socat, l, r) ==
  /\ pc = "next_open_socket"
  /\ idx <= Len(sock_list)
  /\ lsof' = l
  /\ proc_read' = r
  /\ LET sock == sock_list[idx]
         open == is_socket_open(socat)
         owner == IF open THEN get_process_using_socket(l, r, is_cursor)
                  ELSE "unchecked"
     IN /\ probes' = Append(probes, [sock |-> sock, open |-> open, owner |-> owner])
        /\ IF owner = "True"
             THEN /\ sock_result' = sock
                  /\ pc' = "done"
                  /\ UNCHANGED <<idx, error, exit_code>>
           ELSE IF owner \in {"False", "unchecked"}
             THEN /\ idx' = idx + 1
                  /\ UNCHANGED <<pc, sock_result, error, exit_code>>
           ELSE /\ Raise(owner)
                /\ UNCHANGED <<idx, sock_result>>
  /\ UNCHANGED <<proc_vars, local_vars, ran, written, message, log_vars,
                 st_atime, now, max_idle_time, sock_list, code_binary, path_exists>>

\* lines 58-63 and 25-29: the list is exhausted, fail(...) exits with 1
NoOpenSocketMutantExitZero ==
  /\ pc = "next_open_socket"
  /\ idx > Len(sock_list)
  /\ message' = "Could not find an open VS Code IPC socket."
  /\ pc' = "done"
  /\ exit_code' = 0
  /\ UNCHANGED <<proc_vars, local_vars, ran, written, error, log_vars, sel_vars>>

NoOpenSocket ==
  /\ pc = "next_open_socket"
  /\ idx > Len(sock_list)
  /\ message' = "Could not find an open VS Code IPC socket."
  /\ pc' = "done"
  /\ exit_code' = 1
  /\ UNCHANGED <<proc_vars, local_vars, ran, written, error, log_vars, sel_vars>>

(***************************************************************************)
(* Editor binary, lines 79-116                                             *)
(***************************************************************************)
Repos == 1..MaxRepos

\* get_code_binary called in a fresh process, lines 79-97: atime is the stat
\* of every ~/.vscode-server/bin/* entry, code_exists is os.path.exists(path)
GetCodeBinary(atime, code_exists) ==
  /\ pc = "idle"
  /\ LET code_repos == sort_by_access_timestamp(atime) IN
       IF Len(code_repos) = 0
         THEN /\ message' = "No installation of VS Code Server detected!"
              /\ exit_code' = 1
              /\ UNCHANGED <<code_binary, path_exists>>
         ELSE /\ code_binary' =
                   IF code_exists
                     THEN <<code_repos[1][2], "bin", "code">>
                     ELSE <<code_repos[1][2], "bin", "remote-cli", "code">>
              /\ path_exists' = code_exists
              /\ UNCHANGED <<message, exit_code>>
  /\ st_atime' = atime
  /\ pc' = "done"
  /\ UNCHANGED <<proc_vars, local_vars, ran, written, error, log_vars, now,
                 max_idle_time, sock_list, idx, probes, lsof, proc_read, sock_result>>

\* get_cursor_binary called in a fresh process, lines 100-116: atime is the
\* stat of every ~/.cursor-server/cli/servers/*/server/bin/remote-cli entry;
\* cursor_exists is whether <entry>/cursor exists, which the code never asks
GetCursorBinary(atime, cursor_exists) ==
  /\ pc = "idle"
  /\ LET code_repos == sort_by_access_timestamp(atime) IN
       IF Len(code_repos) = 0
         THEN /\ message' = "No installation of Cursor Server detected!"
              /\ exit_code' = 1
              /\ UNCHANGED <<code_binary, path_exists>>
         ELSE /\ code_binary' = <<code_repos[1][2], "cursor">>
              /\ path_exists' = cursor_exists
              /\ UNCHANGED <<message, exit_code>>
  /\ st_atime' = atime
  /\ pc' = "done"
  /\ UNCHANGED <<proc_vars, local_vars, ran, written, error, log_vars, now,
                 max_idle_time, sock_list, idx, probes, lsof, proc_read, sock_result>>

\* a new process: every combination of installed servers and SSH_CLIENT
Start == \E nv \in 0..1, nc \in 0..1, e \in SshClientValues : Import(nv, nc, e)

\* the steps of a started process, and the direct calls of the selectors
Flow ==
  \/ pc = "main" /\ \E o \in Options, c \in BOOLEAN : Main(o, c)
  \/ RunRemote
  \/ CheckForBinaries
  \/ OpenLatest
  \/ NoPriorSession
  \/ OpenShortcut
  \/ RefreshLatest
  \/ ShortcutFails
  \/ DefaultFails
  \/ DefaultResolve
  \/ DefaultAppend
  \/ DefaultExec
  \/ pc = "idle"
       /\ \E S \in SUBSET SockPaths : \E atime \in [S -> Times] :
            \E t \in Nows, mit \in MaxIdleTimes, c \in BOOLEAN :
              GetIpcSocket(atime, t, mit, c)
  \/ pc = "next_open_socket"
       /\ \E i \in ProbeInputs : ProbeSocket(i[1], i[2], i[3])
  \/ NoOpenSocket
  \/ pc = "idle"
       /\ \E S \in SUBSET Repos : \E atime \in [S -> Times] :
            \E code_exists \in BOOLEAN : GetCodeBinary(atime, code_exists)
  \/ pc = "idle"
       /\ \E S \in SUBSET Repos : \E atime \in [S -> Times] :
            \E cursor_exists \in BOOLEAN : GetCursorBinary(atime, cursor_exists)

Next ==
  \/ pc \in {"idle", "done"} /\ Start
  \/ Flow

Spec == Init /\ [][Next]_vars

(***************************************************************************)
(* The default branch of run_loacl, lines 231-251, over more paths: a      *)
(* local invocation `rcode <host> <path>` with no flag and no ~/.rcode     *)
(***************************************************************************)
MaxPath == 3

\* a path is a first piece followed by pieces that begin with a slash
PathHeads == { "~", "/home/me", "/srv" }
PathTails == { "/home/me", "/srv", "/x" }
UriPaths ==
  UNION { { <<h>> \o t : h \in PathHeads, t \in [1..n -> PathTails] } :
          n \in 0..(MaxPath - 1) }
UriHosts == hosts \cup { <<"ghost">> }

InitUri ==
  /\ pc = "run_loacl"
  /\ IS_REMOTE_VSCODE = FALSE
  /\ import_env = NoEnv
  /\ is_cursor = FALSE
  /\ options \in { Opt(<<h, d>>, FALSE, None, None) : h \in UriHosts, d \in UriPaths }
  /\ rcode_home = None
  /\ rcode_used_list = <<>>
  /\ server = None
  /\ ssh_remote = None
  /\ returncode = NoExit
  /\ branch = NoBranch
  /\ ran = <<>>
  /\ written = <<>>
  /\ last_uri = None
  /\ all_written = <<>>
  /\ message = ""
  /\ error = "none"
  /\ exit_code = NoExit
  /\ st_atime = <<>>
  /\ now = 0
  /\ max_idle_time = 0
  /\ sock_list = <<>>
  /\ idx = 0
  /\ probes = <<>>
  /\ lsof = NoLsof
  /\ proc_read = NoRead
  /\ sock_result = NoSock
  /\ code_binary = <<>>
  /\ path_exists = FALSE

NextUri ==
  \/ DefaultFails
  \/ DefaultResolve
  \/ DefaultAppend
  \/ DefaultExec

SpecUri == InitUri /\ [][NextUri]_vars

(***************************************************************************)
(* Invocations of the same user racing on ~/.rcode                         *)
(***************************************************************************)
MaxRaceLog == 2

PeerNames == { Latest, <<"work">> }
PeerUris == { UriPrefix \o <<"devbox">> \o <<"/srv/a">> }

\* lines 226-227 or 244-248 run by another invocation between this one's
\* read of the log and its exit: one write to a file opened with mode "a"
PeerAppend(name, uri) ==
  /\ pc \in {"refresh_latest", "append", "exec"}
  /\ NumRecords(rcode_home) <= MaxRaceLog
  /\ LET line == name \o <<",">> \o uri \o linesep IN
       /\ rcode_home' = AppendTo(rcode_home, line)
       /\ all_written' = Append(all_written, line)
  /\ last_uri' = uri
  /\ UNCHANGED <<pc, proc_vars, local_vars, out_vars, sel_vars>>

\* a new invocation starts only while the log is short
NextRace ==
  \/ pc \in {"idle", "done"} /\ NumRecords(rcode_home) < MaxRaceLog /\ Start
  \/ Flow
  \/ \E name \in PeerNames, uri \in PeerUris : PeerAppend(name, uri)

SpecRace == Init /\ [][NextRace]_vars

(***************************************************************************)
(* Properties                                                              *)
(***************************************************************************)
Idle(p) == now - st_atime[p]
Returned == sock_result # NoSock
Passed(pr) == pr.open /\ pr.owner = "True"

\* C1: get_ipc_socket never probes, and so never returns, a socket whose idle
\* time now - last_access exceeds max_idle_time.
C1_NeverReturnsStale ==
  /\ Returned => Idle(sock_result) <= max_idle_time
  /\ \A i \in 1..Len(probes) : Idle(probes[i].sock) <= max_idle_time

\* a socket was returned while a more recently named candidate was stale
C1_Witness ==
  /\ pc = "done"
  /\ Returned
  /\ \E p \in DOMAIN st_atime : Idle(p) > max_idle_time
  /\ \E p \in DOMAIN st_atime : Idle(p) = max_idle_time

\* C2: the returned socket is the last one probed and passed both checks;
\* probes go in descending last-access order; every candidate within the
\* idle threshold that sorts before the returned one was probed and failed.
C2_MostRecentPassing ==
  /\ \A i, j \in 1..Len(probes) :
       i < j => TupleLess(<<st_atime[probes[j].sock], probes[j].sock>>,
                          <<st_atime[probes[i].sock], probes[i].sock>>)
  /\ Returned =>
       /\ probes[Len(probes)].sock = sock_result
       /\ Passed(probes[Len(probes)])
       /\ \A i \in 1..(Len(probes) - 1) : ~Passed(probes[i])
       /\ \A p \in DOMAIN st_atime :
            (Idle(p) <= max_idle_time /\ st_atime[p] > st_atime[sock_result])
              => \E i \in 1..(Len(probes) - 1) : probes[i].sock = p

\* three candidates with distinct times, all within the threshold: the most
\* recent was listening but failed the ownership check, the second was
\* returned and the third was never probed
C2_Witness ==
  /\ pc = "done"
  /\ Returned
  /\ Cardinality(DOMAIN st_atime) = 3
  /\ \A p \in DOMAIN st_atime : Idle(p) <= max_idle_time
  /\ \A p, q \in DOMAIN st_atime : p # q => st_atime[p] # st_atime[q]
  /\ Len(probes) = 2
  /\ probes[1].open /\ probes[1].owner = "False"
  /\ \E p \in DOMAIN st_atime : st_atime[p] < st_atime[sock_result]

HasAtom(s, a) == \E i \in 1..Len(s) : s[i] = a

\* C3: a returned socket was listening and the command line of the process
\* holding it contains the marker of the flavor in use; a listening socket
\* whose holder's command line lacks the marker is not returned.
C3_BothChecksPass ==
  /\ Returned =>
       /\ probes[Len(probes)].open
       /\ ReachesRead(lsof)
       /\ proc_read.status = "ok"
       /\ HasAtom(proc_read.data, IF is_cursor THEN "cursor-server" ELSE "vscode-server")
  /\ (pc \in {"next_open_socket", "done"} /\ probes # <<>> /\ proc_read.status = "ok"
        /\ proc_read.data \in {OtherCmdline, IF is_cursor THEN VscodeCmdline ELSE CursorCmdline})
       => (~Returned /\ probes[Len(probes)].owner = "False")

\* the Cursor flavor skipped a listening socket and returned a later one held
\* by a cursor-server process
C3_Witness ==
  /\ pc = "done"
  /\ Returned
  /\ is_cursor
  /\ Len(probes) = 2
  /\ probes[1].open
  /\ proc_read.data = CursorCmdline

\* C4 as claimed: whenever the PID lookup fails, returns nothing or returns
\* something that is not a single PID, or the command line cannot be read,
\* get_process_using_socket gives False and nothing is raised.
C4_OwnerGoneIsFalse ==
  (probes # <<>> /\ probes[Len(probes)].open
     /\ \/ lsof.status # "ok"
        \/ Strip(lsof.output) = <<>>
        \/ Len(Split(Strip(lsof.output), "\n")) # 1
        \/ proc_read.status \in {"FileNotFoundError", "PermissionError"})
    => (probes[Len(probes)].owner = "False" /\ error = "none")

\* the record name,uri as written: the name ends at the first comma
RecordName(line) == SubSeq(line, 1, IndexOf(line, ",") - 1)
RecordUri(line) == SubSeq(line, IndexOf(line, ",") + 1, Len(line))

\* C5 as claimed: open-most-recent runs the editor with exactly the URI that
\* the latest append was given.
C5_RoundTrip ==
  (pc = "done" /\ branch = "latest" /\ ran # <<>>) => ran[1].arg = last_uri

FirstNamed(lines, name) ==
  CHOOSE i \in 1..Len(lines) :
    /\ Strip(RecordName(lines[i])) = Strip(name)
    /\ \A j \in 1..(i - 1) : Strip(RecordName(lines[j])) # Strip(name)

\* C6 as claimed: lookup by name opens the URI of the first record whose
\* trimmed name equals the trimmed requested name; open-most-recent opens
\* the URI of the last non-empty line.
C6_FirstByNameLastOverall ==
  /\ (pc \in {"refresh_latest", "done"} /\ branch = "shortcut"
        /\ \E i \in 1..Len(rcode_used_list) :
             Strip(RecordName(rcode_used_list[i])) = Strip(options.open_shortcut))
       => ran = <<Run(RecordUri(rcode_used_list[
                    FirstNamed(rcode_used_list, options.open_shortcut)]))>>
  /\ (pc = "done" /\ branch = "latest" /\ rcode_used_list # <<>>)
       => ran = <<Run(RecordUri(rcode_used_list[Len(rcode_used_list)]))>>

NoNonEmptyLine(f) == f = None \/ \A i \in 1..Len(f) : f[i] = "\n"

\* C7: with the log absent or without a non-empty line, open-most-recent
\* prints the "no prior session" message, runs no editor, appends nothing,
\* enters no other branch and ends with exit status 0.
C7_NoPriorSession ==
  (pc = "done" /\ ~IS_REMOTE_VSCODE /\ options.is_latest /\ NoNonEmptyLine(rcode_home))
    => /\ message = "Not use rcode before, just use it once"
       /\ ran = <<>>
       /\ written = <<>>
       /\ branch = "latest"
       /\ error = "none"
       /\ exit_code = 0

\* rcode -l given together with -os and positionals on a machine without a log
C7_Witness ==
  /\ pc = "done"
  /\ ~IS_REMOTE_VSCODE
  /\ options.is_latest
  /\ Truthy(options.open_shortcut)
  /\ options.dir # None
  /\ rcode_home = None
  /\ exit_code = 0

\* C8: on a shortcut match the editor is run with the matched URI before
\* anything is appended; the invocation then appends exactly one record
\* latest,<uri> with that URI, and open-most-recent on the resulting log
\* opens it.
C8_ShortcutRefreshesLatest ==
  /\ pc = "refresh_latest" =>
       /\ ran = <<Run(Strip(server))>>
       /\ written = <<>>
       /\ ReadLog(rcode_home) = rcode_used_list
  /\ (pc = "done" /\ branch = "shortcut" /\ error = "none") =>
       /\ ran = <<Run(Strip(server))>>
       /\ written = << Latest \o <<",">> \o server \o linesep >>
       /\ ReadLog(rcode_home) = Append(rcode_used_list, Latest \o <<",">> \o server)
       /\ RecordName(Last(ReadLog(rcode_home))) = Latest
       /\ Strip(RecordUri(Last(ReadLog(rcode_home)))) = ran[1].arg
       /\ MostRecent(ReadLog(rcode_home)) = ran[1].arg

\* a shortcut was opened whose URI was not what open-most-recent would have
\* opened before
C8_Witness ==
  /\ pc = "done"
  /\ branch = "shortcut"
  /\ written # <<>>
  /\ MostRecent(rcode_used_list) # ran[1].arg
  /\ exit_code = 2

\* C9: an invocation that ends in an error has appended nothing and left the
\* log as it read it; an invocation that appended has appended one record
\* name,<uri> with the URI it built or matched, and has run the editor with
\* that URI.
C9_NoAppendOnFailure ==
  pc = "done" =>
    /\ error # "none" =>
         /\ written = <<>>
         /\ branch # NoBranch => ReadLog(rcode_home) = rcode_used_list
    /\ written # <<>> =>
         LET uri == IF branch = "default" THEN ssh_remote ELSE server IN
         /\ error = "none"
         /\ uri # None
         /\ Len(written) = 1
         /\ \E name \in {Latest} \cup (ShortcutNames \ {None}) :
              written[1] = name \o <<",">> \o uri \o linesep
         /\ ReadLog(rcode_home) =
              Append(rcode_used_list, SubSeq(written[1], 1, Len(written[1]) - 1))
         /\ Len(ran) = 1
         /\ ran[1].arg \in {uri, Strip(uri)}

\* an unknown host given while the log already holds records
C9_Witness ==
  /\ pc = "done"
  /\ error = "Exception: Please config your .ssh config to use this"
  /\ rcode_used_list # <<>>
  /\ options.dir = <<"ghost">>

InternalError ==
  \/ error \in { "Exception: need dir name here",
                 "Exception: Please config your .ssh config to use this",
                 "Exception: no short_cut name in your added" }
  \/ message \in { "No installation of VS Code Server detected!",
                   "No installation of Cursor Server detected!",
                   "Could not find an open VS Code IPC socket." }

\* C10: a missing directory argument in remote mode, no server installation,
\* no socket passing the checks, an unknown host and a shortcut missing from
\* a non-empty log each end the invocation with exit status 1 and without
\* running the editor.
C10_ErrorsExitOne ==
  /\ InternalError => (pc = "done" /\ exit_code = 1 /\ ran = <<>>)
  /\ (pc = "done" /\ IS_REMOTE_VSCODE /\ ~Truthy(options.dir))
       => error = "Exception: need dir name here"
  /\ (pc = "done" /\ branch = "default" /\ remote_name \notin hosts)
       => error = "Exception: Please config your .ssh config to use this"
  /\ (pc = "done" /\ branch = "shortcut" /\ ran = <<>> /\ error # "ValueError")
       => error = "Exception: no short_cut name in your added"
  /\ (pc = "done" /\ idx > Len(sock_list))
       => message = "Could not find an open VS Code IPC socket."

\* every candidate was probed and none passed
C10_Witness ==
  /\ pc = "done"
  /\ message = "Could not find an open VS Code IPC socket."
  /\ Len(probes) = MaxSocks
  /\ exit_code = 1

\* C11: an invocation that runs the editor runs it once and ends without an
\* exception with the status exit(proc.returncode) gives: the child's exit
\* code itself for every exit code 0..255 (256 - N when the child was killed
\* by signal N and returncode is -N); in the shortcut branch the append has
\* happened before the exit.
C11_ExitCodePropagated ==
  /\ Len(ran) <= 1
  /\ (pc = "done" /\ ran # <<>>) =>
       /\ error = "none"
       /\ returncode \in RetCodes
       /\ returncode \in 0..255 => exit_code = returncode
       /\ returncode < 0 => exit_code = 256 + returncode
       /\ branch \in {"latest", "shortcut", "default"}
       /\ branch = "shortcut" => Len(written) = 1

\* the shortcut branch ended with the child's non-zero exit code
C11_Witness ==
  /\ pc = "done"
  /\ branch = "shortcut"
  /\ Len(ran) = 1
  /\ Len(written) = 1
  /\ returncode = 2
  /\ exit_code = 2

IsPrefix(a, b) == Len(a) <= Len(b) /\ SubSeq(b, 1, Len(a)) = a

\* C12: every step leaves the existing content of the log as a prefix of the
\* new content; the content changes (and the file comes into being) only in
\* a step that appends; an invocation appends at most two records.
C12_AppendOnly ==
  [][ /\ rcode_home # None =>
           (rcode_home' # None /\ IsPrefix(rcode_home, rcode_home'))
      /\ rcode_home' # rcode_home =>
           /\ pc \in {"refresh_latest", "append"}
           /\ Len(written') = Len(written) + 1
           /\ rcode_home' = AppendTo(rcode_home, written'[Len(written')])
      /\ Len(written') <= 2 ]_vars

\* a record was appended to a log that held two records
C12_Witness ==
  /\ pc = "done"
  /\ Len(written) = 1
  /\ Len(rcode_used_list) = 2
  /\ NumRecords(rcode_home) = 3

\* C20: socket resolution makes a bounded number of probes and retries
\* nothing: the i-th probe is of the i-th candidate within the idle threshold,
\* so no candidate is probed twice and the probes never outnumber the
\* candidates; the ownership lookup is run exactly for the candidates whose
\* liveness probe succeeded; nothing is probed after the returned candidate
\* or after an escaping exception; every pass through the loop moves on to
\* the next candidate.
C20_BoundedProbes ==
  /\ [](/\ Len(probes) <= Len(sock_list)
        /\ \A i \in 1..Len(probes) :
             /\ probes[i].sock = sock_list[i]
             /\ probes[i].open <=> probes[i].owner # "unchecked"
             /\ i < Len(probes) => probes[i].owner \in {"False", "unchecked"}
        /\ \A i, j \in 1..Len(probes) : i # j => probes[i].sock # probes[j].sock
        /\ Returned => probes[Len(probes)].sock = sock_result
        /\ pc = "next_open_socket" =>
             (idx = Len(probes) + 1 /\ idx <= Len(sock_list) + 1))
  /\ [][(pc = "next_open_socket" /\ pc' = "next_open_socket") =>
          (idx' = idx + 1 /\ Len(probes') = Len(probes) + 1)]_vars

\* of three candidates the first was not listening, so its owner was never
\* looked up, the second was returned and the third was left alone
C20_Witness ==
  /\ pc = "done"
  /\ Returned
  /\ Len(sock_list) = 3
  /\ Len(probes) = 2
  /\ ~probes[1].open
  /\ probes[1].owner = "unchecked"

\* C16 as claimed: the local flow runs the one branch its flags select, in
\* the order open-most-recent, open-named-shortcut, default: with the
\* most-recent flag only the latest branch runs; with an open-shortcut name
\* the default branch is never entered, whatever the log holds.
C16_OneBranchByPriority ==
  branch # NoBranch =>
    /\ options.is_latest => branch = "latest"
    /\ (~options.is_latest /\ Truthy(options.open_shortcut)) => branch = "shortcut"
    /\ (~options.is_latest /\ ~Truthy(options.open_shortcut)) => branch = "default"

Installed(e) == e.n_vscode_repos > 0 \/ e.n_cursor_repos > 0
MarkerSet(e) == Truthy(e.SSH_CLIENT)

\* C14: remote mode is selected if and only if a server installation
\* directory exists and SSH_CLIENT is set (to a non-empty value, as sshd sets
\* it); main dispatches on exactly that, and an invocation in the local flow
\* is not in remote mode and has probed no socket.
C14_RemoteIffInstalledAndMarker ==
  /\ [](pc = "main" =>
          (IS_REMOTE_VSCODE <=> (Installed(import_env) /\ MarkerSet(import_env))))
  /\ [][pc = "main" =>
          pc' = (IF Installed(import_env) /\ MarkerSet(import_env)
                   THEN "run_remote" ELSE "run_loacl")]_vars
  /\ []((pc = "run_loacl" \/ branch # NoBranch) =>
          (~IS_REMOTE_VSCODE /\ probes = <<>> /\ sock_list = <<>>))
  /\ [](pc \in {"run_remote", "check_for_binaries"} =>
          (IS_REMOTE_VSCODE /\ branch = NoBranch))

\* a server is installed but the process was not started over ssh: local mode
C14_Witness ==
  /\ pc = "main"
  /\ import_env.n_vscode_repos > 0
  /\ import_env.SSH_CLIENT = None
  /\ ~IS_REMOTE_VSCODE

\* C15 as claimed: a remote-mode invocation given a directory, on a host with
\* a server installation, ends having run the editor once and without an
\* error before the run.
C15_RemoteReachesExec ==
  (pc = "done" /\ IS_REMOTE_VSCODE /\ Truthy(options.dir))
    => (error = "none" /\ Len(ran) = 1)

\* C17 as claimed: in remote mode the flavor that drives the binary lookup
\* and the owner marker is the one whose server directory exists: Cursor
\* where only the Cursor server is installed, VS Code where only the VS Code
\* server is, whichever entry point was invoked.
C17_FlavorFromInstallation ==
  [][(pc = "main" /\ pc' = "run_remote") =>
       /\ (import_env.n_cursor_repos > 0 /\ import_env.n_vscode_repos = 0)
            => is_cursor'
       /\ (import_env.n_vscode_repos > 0 /\ import_env.n_cursor_repos = 0)
            => ~is_cursor']_vars

\* the executable each flavor expects in version directory d
ExpectedPaths(d) == { <<d, "bin", "code">>, <<d, "cursor">> }
MissingMessages ==
  { "No installation of VS Code Server detected!",
    "No installation of Cursor Server detected!" }

\* C19 as claimed: for each flavor the locator returns a path in the
\* directory with the most recent last-access time: the expected executable
\* when it exists, the alternate relative path in the same directory when it
\* does not; with no installation directory it prints the installation-missing
\* message and exits 1 without probing a socket.
C19_LocatorWithFallback ==
  /\ code_binary # <<>> =>
       /\ code_binary[1] \in DOMAIN st_atime
       /\ \A p \in DOMAIN st_atime : st_atime[p] <= st_atime[code_binary[1]]
       /\ path_exists => code_binary \in ExpectedPaths(code_binary[1])
       /\ ~path_exists => code_binary \notin ExpectedPaths(code_binary[1])
  /\ (pc = "done" /\ message \in MissingMessages) =>
       /\ DOMAIN st_atime = {}
       /\ code_binary = <<>>
       /\ exit_code = 1
       /\ probes = <<>>

\* what the claim says the default branch builds for host rn and path dn: the
\* leading home directory alone becomes /home/<remote user>
ExpectedUri(rn, dn) ==
  LET d == expanduser(dn)
      user == IF "user" \in DOMAIN SshConfig[rn] THEN SshConfig[rn].user
              ELSE <<"root">>
  IN UriPrefix \o rn \o
       (IF Head(d) = LocalHome[1] THEN <<"/home/">> \o user \o Tail(d) ELSE d)

\* C18 as claimed: for a known host the default branch builds
\* vscode-remote://ssh-remote+<host><path>; a path under the local home has
\* its leading home prefix, and nothing else, rewritten to /home/<remote
\* user> (root when the host has no user); any other path is used as given.
C18_OnlyLeadingHomeRewritten ==
  (branch = "default" /\ ssh_remote # None)
    => ssh_remote = ExpectedUri(remote_name, dir_name)

\* a whole record: name,uri and the line separator, with no line break inside
WholeRecord(r) ==
  /\ Len(r) >= 4
  /\ SubSeq(r, Len(r), Len(r)) = linesep
  /\ IndexOf(r, "\n") = Len(r)
  /\ IndexOf(r, ",") \in 2..(Len(r) - 2)

\* C13: however the appends of racing invocations interleave, the log is
\* made of whole name,uri records: the file is the writes of all invocations
\* one after the other, its lines are those records, one line per write, in
\* the order the writes happened, none split, merged or dropped.
C13_RacingAppendsKeepRecords ==
  /\ rcode_home = None <=> all_written = <<>>
  /\ rcode_home # None => rcode_home = Concat(all_written)
  /\ \A i \in 1..Len(all_written) : WholeRecord(all_written[i])
  /\ ReadLog(rcode_home) =
       [i \in 1..Len(all_written) |->
          SubSeq(all_written[i], 1, Len(all_written[i]) - 1)]
  /\ \A i \in 1..Len(written) :
       \E j \in 1..Len(all_written) : all_written[j] = written[i]

\* this invocation read a log of one record, two other invocations appended
\* after that, and then this one appended its own record
C13_Witness ==
  /\ pc = "done"
  /\ Len(rcode_used_list) = 1
  /\ Len(written) = 1
  /\ Len(all_written) = 4
  /\ all_written[4] = written[1]
  /\ all_written[2] # all_written[3]

====
